---- MODULE Spec2Model ----
(***************************************************************************)
(* Model of bot.py: a Telegram storefront bot.  Four update handlers       *)
(* (start_command, show_courses_menu, select_course, contact_admin), the   *)
(* application error handler, and the delivery routine send_safe_message   *)
(* with its three tiers (send/edit, plain retry, callback acknowledgment). *)
(*                                                                         *)
(* Text is a sequence of string tokens.  A token is a run of characters    *)
(* that the conversions of the program (escape_markdown, quote,            *)
(* str.replace) treat as a unit: a word, or one reserved character.        *)
(* Prices are integer minor units (3000 is 30.00).                         *)
(* Every transport call (edit_message_text, reply_text, answer,            *)
(* send_message) is one step whose result, success or TelegramError, is    *)
(* chosen by the environment.  The code between two awaits runs without    *)
(* interruption, so it belongs to the step of the await that precedes it.  *)
(***************************************************************************)
EXTENDS Integers, Sequences, FiniteSets

\* Number of chat users whose updates reach the bot.
NumUsers == 2

Users == 1..NumUsers

VARIABLES
  environ,     \* os.environ: whether each of the two variables the program reads is set
  process      \* the process: starting, polling (inside run_polling), aborted

\* os.getenv("ADMIN_USERNAME"): the handle, or None when the variable is not
\* set, which an f-string prints as None.
ADMIN_USERNAME == IF environ.ADMIN_USERNAME THEN "admin_username" ELSE "None"

\* ---------------------------------------------------------------- catalog

\* Insertion order of the COURSE_DATA dict literal.
COURSE_IDS == <<"course_a", "course_b", "course_c">>

COURSE_DATA ==
  [course_a |->
     [name |-> <<"Ordinary", " ", "Group">>,
      price |-> 3000,
      description |-> <<"Get Leaked content, daily updates [check]">>,
      features |-> << <<"Basic", " ", "content", " ", "access">>,
                      <<"Daily", " ", "updates">> >>],
   course_b |->
     [name |-> <<"Standard", " ", "Group">>,
      price |-> 5000,
      description |-> <<"Get premium content, daily updates [check]">>,
      features |-> << <<"Premium", " ", "content", " ", "access">>,
                      <<"Daily", " ", "updates">>,
                      <<"Priority", " ", "support">> >>],
   course_c |->
     [name |-> <<"Premium", " ", "Group", " ", "[crown]">>,
      price |-> 10000,
      description |-> <<"Get unlimited premium content, daily updates [check]">>,
      features |-> << <<"Unlimited", " ", "content", " ", "access">>,
                      <<"Daily", " ", "updates">>,
                      <<"24/7", " ", "support">>,
                      <<"Exclusive", " ", "materials">> >>]]

\* COURSE_DATA.get(course_id): <<course>> when the key is present, <<>> (None)
\* otherwise.  course_id is a token sequence; a key is one token.
COURSE_DATA_get(course_id) ==
  IF Len(course_id) = 1 /\ course_id[1] \in DOMAIN COURSE_DATA
  THEN <<COURSE_DATA[course_id[1]]>>
  ELSE <<>>

\* ------------------------------------------------------- text conversions

Digits == <<"0", "1", "2", "3", "4", "5", "6", "7", "8", "9">>

\* str(n) of a non-negative integer, one token per digit.
RECURSIVE DecStr(_)
DecStr(n) ==
  IF n < 10 THEN <<Digits[n + 1]>>
  ELSE DecStr(n \div 10) \o <<Digits[(n % 10) + 1]>>

\* The format spec :d, with no padding.
Pad2_unpadded(n) == DecStr(n)

\* The format spec :02d, zero padded to at least two digits.
Pad2(n) == IF n < 10 THEN <<"0">> \o DecStr(n) ELSE DecStr(n)

\* f"Rs{int(price)}.{int(round((price - int(price)) * 100)):02d}"
price_text(price) ==
  <<"Rs">> \o DecStr(price \div 100) \o <<".">> \o Pad2(price % 100)

\* f"{price}" of the float: the shortest decimal that reads back, so a whole
\* number of tenths prints one fractional digit (30.0, 30.5, 30.25).
FloatStr(price) ==
  DecStr(price \div 100) \o <<".">> \o
  (IF (price % 100) % 10 = 0 THEN DecStr((price % 100) \div 10)
   ELSE Pad2(price % 100))

\* sep.join(parts) for a sequence of texts.
RECURSIVE Join(_, _)
Join(parts, sep) ==
  IF parts = <<>> THEN <<>>
  ELSE IF Len(parts) = 1 THEN parts[1]
  ELSE parts[1] \o sep \o Join(Tail(parts), sep)

\* urllib.parse.quote: the tokens it rewrites, with their percent-encoding.
\* Every other token (letters, digits, "_.-~" and "/") is kept.
PercentEncoding ==
  [t \in {" ", "[crown]", "&", "%", "|", "\n"} |->
     CASE t = " " -> "%20"
       [] t = "[crown]" -> "%F0%9F%91%91"
       [] t = "&" -> "%26"
       [] t = "%" -> "%25"
       [] t = "|" -> "%7C"
       [] t = "\n" -> "%0A"]

quote(text) ==
  [i \in 1..Len(text) |->
     IF text[i] \in DOMAIN PercentEncoding THEN PercentEncoding[text[i]]
     ELSE text[i]]

\* telegram.helpers.escape_markdown(text, version=2): a backslash before each
\* character that MarkdownV2 reserves.
MarkdownV2Special ==
  {"_", "*", "[", "]", "(", ")", "~", "[backtick]", ">", "#", "+", "-", "=", "|",
   "{", "}", ".", "!"}

RECURSIVE escape_markdown(_)
escape_markdown(text) ==
  IF text = <<>> THEN <<>>
  ELSE (IF Head(text) \in MarkdownV2Special THEN <<"\\", Head(text)>>
        ELSE <<Head(text)>>) \o escape_markdown(Tail(text))

\* str.replace(old, ""): every occurrence of the token old is removed.
Replace(data, old) == SelectSeq(data, LAMBDA t : t # old)

\* ------------------------------------------------------------- keyboards

\* InlineKeyboardButton(text, callback_data=...) and (text, url=...); the
\* attribute that is not given is None, here <<>>.
CallbackButton(text, callback_data) ==
  [text |-> text, callback_data |-> callback_data, url |-> <<>>]

UrlButton(text, url) == [text |-> text, callback_data |-> <<>>, url |-> url]

\* reply_markup=None
NoMarkup == <<>>

\* A catalog keyboard that lists the courses from the last to the first.
create_course_keyboard_reversed ==
  [i \in 1..Len(COURSE_IDS) |->
     LET course_id == COURSE_IDS[Len(COURSE_IDS) + 1 - i]
         course == COURSE_DATA[course_id] IN
     <<CallbackButton(course.name \o <<" ", "(">> \o price_text(course.price)
                        \o <<")">>,
                      <<"select_course_", course_id>>)>>]
  \o << <<UrlButton(<<"[camera] Show Demo">>,
                    <<"https://t.me/+ukJYiqlkRLYzOTFl">>)>> >>

\* One row per course in dict order, then the demo row.
create_course_keyboard ==
  [i \in 1..Len(COURSE_IDS) |->
     LET course == COURSE_DATA[COURSE_IDS[i]] IN
     <<CallbackButton(course.name \o <<" ", "(">> \o price_text(course.price)
                        \o <<")">>,
                      <<"select_course_", COURSE_IDS[i]>>)>>]
  \o << <<UrlButton(<<"[camera] Show Demo">>,
                    <<"https://t.me/+ukJYiqlkRLYzOTFl">>)>> >>

\* The deep link of the Contact Admin button.
deep_link(course) ==
  <<"https://t.me/", ADMIN_USERNAME, "?text=">>
  \o <<"Hello Admin,", "%0A", "%0A",
       "I'm interested in the following Group:", "%0A",
       "[book] Group: ">> \o quote(course.name)
  \o <<"%0A", "[money] Price: Rs">> \o FloatStr(course.price)
  \o <<"%0A", "[clipboard] Features: ">>
  \o Join([i \in 1..Len(course.features) |-> quote(course.features[i])],
          <<"|">>)
  \o <<"%0A", "%0A", "Please provide payment details", ".">>

\* Called by select_course after its lookup succeeded, so the early return
\* for a missing course is not taken here.
create_course_detail_keyboard(course_id) ==
  LET course == COURSE_DATA_get(course_id)[1] IN
  << <<UrlButton(<<"Contact Admin">>, deep_link(course))>>,
     <<CallbackButton(<<"[left] Back to Groups">>, <<"back_to_groups">>)>> >>

\* ----------------------------------------------------------------- texts

welcome_text ==
  <<"[star] Welcome to our Premium Bot [books]", "\n", "\n",
    "Select a Group below to see its details:">>

\* A menu text that is not the welcome text.
menu_text_short == <<"Select a Group below to see its details:">>

menu_text ==
  <<"[star] Welcome to our Premium Bot [books]", "\n", "\n",
    "Select a Group below to see its details:">>

NotFoundText == <<"Error: Group information not found", ".">>

SelectErrorText ==
  <<"Sorry, an error occurred while processing your request", ".">>

ContactErrorText ==
  <<"Sorry, an error occurred while contacting the admin", ".">>

ErrorHandlerText ==
  <<"An error occurred", ".", " ", "Please try again later", ".">>

ConfirmationText ==
  <<"Your request has been sent to the admin", ".", " ",
    "They will contact you shortly with payment details", ".">>

\* The text of the tier 3 callback acknowledgment.
AcknowledgmentText ==
  <<"Sorry, an error occurred", ".", " ", "Please try again", ".">>

description_text(course) ==
  <<"[book] ">> \o course.name \o <<" [crown]", "\n", "\n",
    "[money] Price: ">> \o price_text(course.price)
  \o <<"\n", "\n", "[clipboard] Features:", "\n", "[bullet] ">>
  \o Join(course.features, <<"\n", "[bullet] ">>)
  \o <<"\n", "\n", "[memo] Description:", "\n">> \o course.description

\* update.effective_user of user u, as contact_admin prints it.
user_info(u) == <<"User: first last (@user", Digits[u + 1], ")">>

message_text(u, course) ==
  <<"New course inquiry from ">> \o user_info(u) \o <<":", "\n", "\n",
    "[book] Group: ">> \o course.name
  \o <<"\n", "[money] Price: Rs">> \o FloatStr(course.price)
  \o <<"\n", "[clipboard] Features: ">>
  \o Join(course.features, <<",", " ">>)

\* ----------------------------------------------------------------- state

VARIABLES
  user_data,   \* context.user_data of each user: a dict, empty or with the key selected_course
  update,      \* the update each user's handler is processing
  pc,          \* where that handler stands: the await it is suspended at
  tier,        \* inside send_safe_message: 1 first attempt, 2 plain retry, 3 acknowledgment; 0 outside
  ssm_calls,   \* the calls of send_safe_message made for the update, with their outcome
  calls,       \* the transport calls made for the update, in order, with their result
  outcome,     \* how the handler ended: pending, returned, raised
  errors,      \* the logger.error lines written for the update
  entry_data,  \* user_data of the user when the update was dispatched
  prev         \* the preceding update of the user: the selection it made and what it rendered

vars ==
  <<environ, process, user_data, update, pc, tier, ssm_calls, calls, outcome,
    errors, entry_data, prev>>

\* An empty dict.
EmptyDict == [k \in {} |-> <<>>]

NoUpdate == [kind |-> "none", data |-> <<>>, callback_query |-> FALSE]

\* A stored selection whose id field holds the display name.
selected_course_by_name(course_id, course) ==
  [id |-> course.name, name |-> course.name, price |-> course.price,
   features |-> course.features]

\* The dict select_course stores under selected_course.
selected_course(course_id, course) ==
  [id |-> course_id, name |-> course.name, price |-> course.price,
   features |-> course.features]

\* Callback payloads that reach the select_course handler (pattern
\* ^select_course_): the buttons of the catalog keyboard, a button of an older
\* keyboard whose course is gone, and a payload that repeats the prefix.
SelectPayloads ==
  {<<"select_course_", COURSE_IDS[i]>> : i \in 1..Len(COURSE_IDS)}
  \cup {<<"select_course_", "nonexistent_id">>,
        <<"select_course_", "select_course_", "course_b">>}

\* Callback payloads that reach the contact_admin handler (pattern
\* ^contact_admin_).
ContactPayloads ==
  {<<"contact_admin_", COURSE_IDS[i]>> : i \in 1..Len(COURSE_IDS)}
  \cup {<<"contact_admin_", "nonexistent_id">>}

\* The handler main() registers for an update.
Handler(upd) ==
  CASE upd.kind = "command" -> "start_command"
    [] upd.kind = "callback" /\ upd.data = <<"back_to_groups">> -> "show_courses_menu"
    [] upd.kind = "callback" /\ upd.data[1] = "select_course_" -> "select_course"
    [] upd.kind = "callback" /\ upd.data[1] = "contact_admin_" -> "contact_admin"
    [] OTHER -> "none"

\* The handlers whose body is inside try / except Exception.
HasTryExcept(h) == h \in {"select_course", "contact_admin"}

\* The text the except clause of a handler sends.
ExceptText(h) ==
  IF h = "select_course" THEN SelectErrorText ELSE ContactErrorText

\* update.effective_message: the message of a command, or the message that
\* carries the pressed button.
effective_message(upd) == upd.kind \in {"command", "callback"}

\* A call of send_safe_message(update, context, text, reply_markup, parse_mode).
SsmCall(text, reply_markup, parse_mode) ==
  [text |-> text, reply_markup |-> reply_markup, parse_mode |-> parse_mode,
   outcome |-> "pending"]

\* ---------------------------------------------------- send_safe_message

\* Tier 1, the try block: the text escaped for MarkdownV2, sent by editing the
\* message of a callback query or by replying to a command.
FirstCall(upd, c) ==
  [op |-> IF upd.callback_query THEN "edit_message_text" ELSE "reply_text",
   chat_id |-> <<>>,
   text |-> IF c.parse_mode = "MarkdownV2" THEN escape_markdown(c.text)
            ELSE c.text,
   parse_mode |-> c.parse_mode,
   reply_markup |-> c.reply_markup]

\* A retry that repeats the first attempt: escaped text, parse mode kept.
SecondCall_formatted(upd, c) == FirstCall(upd, c)

\* Tier 2, the first except block: the text as given, no parse mode.
SecondCall(upd, c) ==
  [op |-> IF upd.callback_query THEN "edit_message_text" ELSE "reply_text",
   chat_id |-> <<>>,
   text |-> c.text,
   parse_mode |-> "None",
   reply_markup |-> c.reply_markup]

\* Tier 3, the second except block: callback_query.answer(...).
ThirdCall ==
  [op |-> "answer", chat_id |-> <<>>, text |-> AcknowledgmentText,
   parse_mode |-> "None", reply_markup |-> NoMarkup]

\* A second except block that re-raises the error of a command's retry.
AfterSecondFailure_raise(upd) ==
  IF upd.callback_query THEN "acknowledge" ELSE "raise"

\* What the second except block does after the retry failed: acknowledge a
\* callback query, and for a command fall off the end of the function.
AfterSecondFailure(upd) ==
  IF upd.callback_query THEN "acknowledge" ELSE "return"

\* The transport log of user u with one more call.
Logged(u, call, t, ok) ==
  Append(calls[u],
         [op |-> call.op, chat_id |-> call.chat_id, text |-> call.text,
          parse_mode |-> call.parse_mode, reply_markup |-> call.reply_markup,
          ok |-> ok, tier |-> t, call |-> IF t = 0 THEN 0 ELSE Len(ssm_calls[u])])

\* The send_safe_message call that user u's handler is inside.
CurrentCall(u) == ssm_calls[u][Len(ssm_calls[u])]

\* ------------------------------------------------------- handler bodies

\* d[key] = value on a dict.
SetItem(d, key, value) ==
  [k \in DOMAIN d \cup {key} |-> IF k = key THEN value ELSE d[k]]

\* A select_course that drops the stored selection when the course is missing.
select_course_plan_clear(d, upd) ==
  LET course_id == Replace(upd.data, "select_course_")
      course == COURSE_DATA_get(course_id)
  IN IF course = <<>>
     THEN [store |-> EmptyDict,
           call |-> SsmCall(NotFoundText, NoMarkup, "None")]
     ELSE [store |-> SetItem(d, "selected_course",
                             selected_course(course_id, course[1])),
           call |-> SsmCall(description_text(course[1]),
                            create_course_detail_keyboard(course_id), "None")]

\* A select_course that renders the selection it finds in user_data, read
\* before the new selection is stored.
select_course_plan_stale(d, upd) ==
  LET course_id == Replace(upd.data, "select_course_")
      course == COURSE_DATA_get(course_id)
      shown == IF "selected_course" \in DOMAIN d
               THEN d["selected_course"].id ELSE course_id
  IN IF course = <<>>
     THEN [store |-> d, call |-> SsmCall(NotFoundText, NoMarkup, "None")]
     ELSE [store |-> SetItem(d, "selected_course",
                             selected_course(course_id, course[1])),
           call |-> SsmCall(description_text(COURSE_DATA_get(shown)[1]),
                            create_course_detail_keyboard(shown), "None")]

\* A select_course that stores the course only when nothing is stored yet.
select_course_plan_keep(d, upd) ==
  LET course_id == Replace(upd.data, "select_course_")
      course == COURSE_DATA_get(course_id)
  IN IF course = <<>>
     THEN [store |-> d, call |-> SsmCall(NotFoundText, NoMarkup, "None")]
     ELSE [store |-> IF "selected_course" \in DOMAIN d THEN d
                     ELSE SetItem(d, "selected_course",
                                  selected_course(course_id, course[1])),
           call |-> SsmCall(description_text(course[1]),
                            create_course_detail_keyboard(course_id), "None")]

\* A select_course that shows the course and stores nothing.
select_course_plan_unstored(d, upd) ==
  LET course_id == Replace(upd.data, "select_course_")
      course == COURSE_DATA_get(course_id)
  IN IF course = <<>>
     THEN [store |-> d, call |-> SsmCall(NotFoundText, NoMarkup, "None")]
     ELSE [store |-> d,
           call |-> SsmCall(description_text(course[1]),
                            create_course_detail_keyboard(course_id), "None")]

\* select_course from the lookup to its call of send_safe_message: the dict
\* context.user_data becomes, and the message it renders.
select_course_plan(d, upd) ==
  LET course_id == Replace(upd.data, "select_course_")
      course == COURSE_DATA_get(course_id)
  IN IF course = <<>>
     THEN [store |-> d, call |-> SsmCall(NotFoundText, NoMarkup, "None")]
     ELSE [store |-> SetItem(d, "selected_course",
                             selected_course(course_id, course[1])),
           call |-> SsmCall(description_text(course[1]),
                            create_course_detail_keyboard(course_id), "None")]

\* A contact_admin that confirms a request for a missing course.
contact_admin_plan_confirm(upd) ==
  LET course == COURSE_DATA_get(Replace(upd.data, "contact_admin_"))
  IN IF course = <<>>
     THEN [pc |-> "body",
           next |-> <<SsmCall(ConfirmationText, NoMarkup, "None")>>]
     ELSE [pc |-> "send_message", next |-> <<>>]

\* contact_admin from the lookup to its next await: the not-found message, or
\* the relay to the admin.
contact_admin_plan(upd) ==
  LET course == COURSE_DATA_get(Replace(upd.data, "contact_admin_"))
  IN IF course = <<>>
     THEN [pc |-> "body", next |-> <<SsmCall(NotFoundText, NoMarkup, "None")>>]
     ELSE [pc |-> "send_message", next |-> <<>>]

\* context.bot.send_message(chat_id=f"@{ADMIN_USERNAME}", text=message_text)
RelayCall(u, upd) ==
  [op |-> "send_message", chat_id |-> <<"@", ADMIN_USERNAME>>,
   text |-> message_text(u, COURSE_DATA_get(Replace(upd.data, "contact_admin_"))[1]),
   parse_mode |-> "None", reply_markup |-> NoMarkup]

\* A relay whose failure is ignored.
AfterRelay_ignored(ok) == "confirm"

\* contact_admin after the relay: the confirmation when it succeeded, the
\* except clause when it raised.
AfterRelay(ok) == IF ok THEN "confirm" ELSE "except"

\* A query.answer() whose TelegramError is dropped.
AfterAnswer_ignored(ok) == "continue"

\* query.answer() is the first statement inside try: when it raises, the
\* except Exception clause of the handler runs.
AfterAnswer(ok) == IF ok THEN "continue" ELSE "except"

\* query.answer() at the top of select_course and contact_admin.
AnswerCall ==
  [op |-> "answer", chat_id |-> <<>>, text |-> <<>>, parse_mode |-> "None",
   reply_markup |-> NoMarkup]

\* An exception leaves the handler: the application calls error_handler, which
\* sends its message when the update has a message.
HandlerRaised(upd) ==
  IF effective_message(upd)
  THEN [pc |-> "error_handler",
        next |-> <<SsmCall(ErrorHandlerText, NoMarkup, "None")>>,
        outcome |-> "raised", log |-> <<"Update caused error">>]
  ELSE [pc |-> "done", next |-> <<>>, outcome |-> "raised",
        log |-> <<"Update caused error">>]

\* The logger.error line of the except clause of a handler.
ExceptLog(h) ==
  IF h = "select_course" THEN "Error selecting Group"
  ELSE "Error contacting admin"

\* The except clause of select_course and contact_admin.
ExceptClause(upd) ==
  [pc |-> "except",
   next |-> <<SsmCall(ExceptText(Handler(upd)), NoMarkup, "None")>>,
   outcome |-> "pending", log |-> <<ExceptLog(Handler(upd))>>]

\* An except clause that runs again when its own send_safe_message raises.
Continue_retry(upd, at, old, o) ==
  CASE at = "body" /\ o = "returned" ->
         [pc |-> "done", next |-> <<>>, outcome |-> "returned", log |-> <<>>]
    [] at = "body" /\ o = "raised" ->
         IF HasTryExcept(Handler(upd)) THEN ExceptClause(upd)
         ELSE HandlerRaised(upd)
    [] at = "except" /\ o = "returned" ->
         [pc |-> "done", next |-> <<>>, outcome |-> "returned", log |-> <<>>]
    [] at = "except" /\ o = "raised" -> ExceptClause(upd)
    [] at = "error_handler" ->
         [pc |-> "done", next |-> <<>>, outcome |-> old, log |-> <<>>]
    [] at = "call" ->
         [pc |-> "done", next |-> <<>>, outcome |-> o, log |-> <<>>]

\* What the caller of send_safe_message does when the call returns or raises
\* (o), by the place of the call (at): where it goes, the next call of
\* send_safe_message if any, and the handler's outcome.
Continue(upd, at, old, o) ==
  CASE at = "body" /\ o = "returned" ->
         [pc |-> "done", next |-> <<>>, outcome |-> "returned", log |-> <<>>]
    [] at = "body" /\ o = "raised" ->
         IF HasTryExcept(Handler(upd)) THEN ExceptClause(upd)
         ELSE HandlerRaised(upd)
    [] at = "except" /\ o = "returned" ->
         [pc |-> "done", next |-> <<>>, outcome |-> "returned", log |-> <<>>]
    [] at = "except" /\ o = "raised" -> HandlerRaised(upd)
    [] at = "error_handler" ->
         [pc |-> "done", next |-> <<>>, outcome |-> old, log |-> <<>>]
    [] at = "call" ->
         [pc |-> "done", next |-> <<>>, outcome |-> o, log |-> <<>>]

\* The places of a handler that are inside a call of send_safe_message.
InSsm == {"body", "except", "error_handler", "call"}

\* User u's handler moves on: the log, the send_safe_message calls, the place,
\* after the logger.error lines in lines.
Goto(u, c, log, sofar, lines) ==
  /\ calls' = [calls EXCEPT ![u] = log]
  /\ errors' = [errors EXCEPT ![u] = errors[u] \o lines \o c.log]
  /\ ssm_calls' = [ssm_calls EXCEPT ![u] = sofar \o c.next]
  /\ pc' = [pc EXCEPT ![u] = c.pc]
  /\ tier' = [tier EXCEPT ![u] = IF c.next = <<>> THEN 0 ELSE 1]
  /\ outcome' = [outcome EXCEPT ![u] = c.outcome]
  /\ UNCHANGED <<environ, process>>

\* send_safe_message ends with outcome o, after the logger.error lines in
\* lines, and its caller continues.
Leave(u, log, o, lines) ==
  /\ Goto(u, Continue(update[u], pc[u], outcome[u], o), log,
          [ssm_calls[u] EXCEPT ![Len(ssm_calls[u])].outcome = o], lines)
  /\ UNCHANGED <<user_data, update, entry_data, prev>>

\* ---------------------------------------------------------------- actions

\* Both variables are set.
Configured == [TELEGRAM_BOT_TOKEN |-> TRUE, ADMIN_USERNAME |-> TRUE]

Init ==
  /\ environ = Configured
  /\ process = "polling"
  /\ user_data = [u \in Users |-> EmptyDict]
  /\ update = [u \in Users |-> NoUpdate]
  /\ pc = [u \in Users |-> "idle"]
  /\ tier = [u \in Users |-> 0]
  /\ ssm_calls = [u \in Users |-> <<>>]
  /\ calls = [u \in Users |-> <<>>]
  /\ outcome = [u \in Users |-> "pending"]
  /\ errors = [u \in Users |-> <<>>]
  /\ entry_data = [u \in Users |-> EmptyDict]
  /\ prev = [u \in Users |-> <<>>]

\* Application.builder().token(...).build() leaves concurrent_updates off and
\* the handlers blocking: run_polling processes one update to its end before
\* it takes the next.
DispatcherFree == process = "polling" /\ \A v \in Users : pc[v] = "idle"

\* The application hands update upd of user u to its handler, which runs to
\* its first await: place at, inside the send_safe_message call in first.
Dispatch(u, upd, at, first) ==
  /\ update' = [update EXCEPT ![u] = upd]
  /\ entry_data' = [entry_data EXCEPT ![u] = user_data[u]]
  /\ pc' = [pc EXCEPT ![u] = at]
  /\ ssm_calls' = [ssm_calls EXCEPT ![u] = first]
  /\ tier' = [tier EXCEPT ![u] = IF first = <<>> THEN 0 ELSE 1]
  /\ calls' = [calls EXCEPT ![u] = <<>>]
  /\ outcome' = [outcome EXCEPT ![u] = "pending"]
  /\ errors' = [errors EXCEPT ![u] = <<>>]
  /\ UNCHANGED <<environ, process, user_data, prev>>

start_command(u) ==
  /\ DispatcherFree
  /\ Dispatch(u, [kind |-> "command", data |-> <<"/start">>,
                  callback_query |-> FALSE],
              "body", <<SsmCall(welcome_text, create_course_keyboard, "None")>>)

show_courses_menu(u) ==
  /\ DispatcherFree
  /\ Dispatch(u, [kind |-> "callback", data |-> <<"back_to_groups">>,
                  callback_query |-> TRUE],
              "body", <<SsmCall(menu_text, create_course_keyboard, "None")>>)

select_course(u, data) ==
  /\ DispatcherFree
  /\ Dispatch(u, [kind |-> "callback", data |-> data, callback_query |-> TRUE],
              "answer", <<>>)

contact_admin(u, data) ==
  /\ DispatcherFree
  /\ Dispatch(u, [kind |-> "callback", data |-> data, callback_query |-> TRUE],
              "answer", <<>>)

\* A dict shared by all users, as a module-level dict or bot_data would be.
Stored_shared(u, store) == [v \in Users |-> store]

\* context.user_data[...] = ...: context.user_data is the dict of the user
\* of the update, so the write reaches the dict of u alone.
Stored(u, store) == [user_data EXCEPT ![u] = store]

\* select_course: query.answer() completes, and the handler runs to its call
\* of send_safe_message.
SelectCourseAnswered(u, ok) ==
  /\ pc[u] = "answer"
  /\ Handler(update[u]) = "select_course"
  /\ LET log == Logged(u, AnswerCall, 0, ok)
         plan == select_course_plan(user_data[u], update[u])
     IN IF AfterAnswer(ok) = "continue"
        THEN /\ user_data' = Stored(u, plan.store)
             /\ Goto(u, [pc |-> "body", next |-> <<plan.call>>,
                         outcome |-> "pending", log |-> <<>>],
                     log, ssm_calls[u], <<>>)
        ELSE /\ Goto(u, ExceptClause(update[u]), log, ssm_calls[u], <<>>)
             /\ UNCHANGED user_data
  /\ UNCHANGED <<update, entry_data, prev>>

\* contact_admin: query.answer() completes, and the handler runs to its next
\* await.
ContactAdminAnswered(u, ok) ==
  /\ pc[u] = "answer"
  /\ Handler(update[u]) = "contact_admin"
  /\ LET log == Logged(u, AnswerCall, 0, ok)
         plan == contact_admin_plan(update[u])
     IN IF AfterAnswer(ok) = "continue"
        THEN Goto(u, [pc |-> plan.pc, next |-> plan.next,
                      outcome |-> "pending", log |-> <<>>],
                  log, ssm_calls[u], <<>>)
        ELSE Goto(u, ExceptClause(update[u]), log, ssm_calls[u], <<>>)
  /\ UNCHANGED <<user_data, update, entry_data, prev>>

\* contact_admin: context.bot.send_message to the admin completes.
SendToAdmin(u, ok) ==
  /\ pc[u] = "send_message"
  /\ LET log == Logged(u, RelayCall(u, update[u]), 0, ok)
     IN IF AfterRelay(ok) = "confirm"
        THEN Goto(u, [pc |-> "body",
                      next |-> <<SsmCall(ConfirmationText, NoMarkup, "None")>>,
                      outcome |-> "pending", log |-> <<>>],
                  log, ssm_calls[u], <<>>)
        ELSE Goto(u, ExceptClause(update[u]), log, ssm_calls[u], <<>>)
  /\ UNCHANGED <<user_data, update, entry_data, prev>>

\* send_safe_message, tier 1.
FirstAttempt(u, ok) ==
  /\ pc[u] \in InSsm
  /\ tier[u] = 1
  /\ LET log == Logged(u, FirstCall(update[u], CurrentCall(u)), 1, ok)
     IN IF ok
        THEN Leave(u, log, "returned", <<>>)
        ELSE /\ tier' = [tier EXCEPT ![u] = 2]
             /\ calls' = [calls EXCEPT ![u] = log]
             /\ errors' = [errors EXCEPT
                              ![u] = Append(errors[u], "Error sending message")]
             /\ UNCHANGED <<environ, process, user_data, update, pc,
                            ssm_calls, outcome, entry_data, prev>>

\* send_safe_message, tier 2.
SecondAttempt(u, ok) ==
  /\ pc[u] \in InSsm
  /\ tier[u] = 2
  /\ LET log == Logged(u, SecondCall(update[u], CurrentCall(u)), 2, ok)
         after == AfterSecondFailure(update[u])
     IN IF ok
        THEN Leave(u, log, "returned", <<>>)
        ELSE IF after = "acknowledge"
        THEN /\ tier' = [tier EXCEPT ![u] = 3]
             /\ calls' = [calls EXCEPT ![u] = log]
             /\ errors' = [errors EXCEPT
                              ![u] = Append(errors[u], "Fallback message failed")]
             /\ UNCHANGED <<environ, process, user_data, update, pc,
                            ssm_calls, outcome, entry_data, prev>>
        ELSE Leave(u, log, IF after = "return" THEN "returned" ELSE "raised",
                   <<"Fallback message failed">>)

\* send_safe_message, tier 3: the answer is not inside a try, so its
\* TelegramError leaves send_safe_message.
Acknowledge(u, ok) ==
  /\ pc[u] \in InSsm
  /\ tier[u] = 3
  /\ Leave(u, Logged(u, ThirdCall, 3, ok), IF ok THEN "returned" ELSE "raised",
           <<>>)

\* What the next update of the user is compared with: a select_course whose
\* query.answer() succeeded and whose course was found.
Remembered(u) ==
  LET course_id == Replace(update[u].data, "select_course_") IN
  IF /\ Handler(update[u]) = "select_course"
     /\ calls[u][1].ok
     /\ COURSE_DATA_get(course_id) # <<>>
  THEN <<[course_id |-> course_id,
          rendered |-> [text |-> ssm_calls[u][1].text,
                        reply_markup |-> ssm_calls[u][1].reply_markup],
          selection |-> user_data[u]]>>
  ELSE <<>>

\* The handler, and the error handler if it ran, are over: the application
\* takes the next update.
Complete(u) ==
  /\ pc[u] = "done"
  /\ prev' = [prev EXCEPT ![u] = Remembered(u)]
  /\ update' = [update EXCEPT ![u] = NoUpdate]
  /\ pc' = [pc EXCEPT ![u] = "idle"]
  /\ tier' = [tier EXCEPT ![u] = 0]
  /\ ssm_calls' = [ssm_calls EXCEPT ![u] = <<>>]
  /\ calls' = [calls EXCEPT ![u] = <<>>]
  /\ outcome' = [outcome EXCEPT ![u] = "pending"]
  /\ errors' = [errors EXCEPT ![u] = <<>>]
  /\ entry_data' = [entry_data EXCEPT ![u] = EmptyDict]
  /\ UNCHANGED <<environ, process, user_data>>

Next ==
  \/ \E u \in Users : start_command(u)
  \/ \E u \in Users : show_courses_menu(u)
  \/ \E u \in Users : \E data \in SelectPayloads : select_course(u, data)
  \/ \E u \in Users : \E data \in ContactPayloads : contact_admin(u, data)
  \/ \E u \in Users : \E ok \in BOOLEAN : SelectCourseAnswered(u, ok)
  \/ \E u \in Users : \E ok \in BOOLEAN : ContactAdminAnswered(u, ok)
  \/ \E u \in Users : \E ok \in BOOLEAN : SendToAdmin(u, ok)
  \/ \E u \in Users : \E ok \in BOOLEAN : FirstAttempt(u, ok)
  \/ \E u \in Users : \E ok \in BOOLEAN : SecondAttempt(u, ok)
  \/ \E u \in Users : \E ok \in BOOLEAN : Acknowledge(u, ok)
  \/ \E u \in Users : Complete(u)

Spec == Init /\ [][Next]_vars

\* ------------------------------------- send_safe_message on its own inputs

\* Texts given to send_safe_message: without and with reserved characters.
DeliveryTexts == {welcome_text, NotFoundText, <<"a", "*", "b", "_", "c">>}

DeliveryModes == {"None", "MarkdownV2", "HTML"}

DeliveryUpdates ==
  {[kind |-> "command", data |-> <<"/start">>, callback_query |-> FALSE],
   [kind |-> "callback", data |-> <<"back_to_groups">>, callback_query |-> TRUE]}

\* One user is inside a call send_safe_message(update, context, text,
\* reply_markup, parse_mode) with arguments drawn from the sets above.
InitDelivery ==
  \E u \in Users : \E upd \in DeliveryUpdates : \E text \in DeliveryTexts :
  \E markup \in {NoMarkup, create_course_keyboard} : \E mode \in DeliveryModes :
    /\ environ = Configured
    /\ process = "polling"
    /\ user_data = [v \in Users |-> EmptyDict]
    /\ update = [v \in Users |-> IF v = u THEN upd ELSE NoUpdate]
    /\ pc = [v \in Users |-> IF v = u THEN "call" ELSE "idle"]
    /\ tier = [v \in Users |-> IF v = u THEN 1 ELSE 0]
    /\ ssm_calls = [v \in Users |->
                      IF v = u THEN <<SsmCall(text, markup, mode)>> ELSE <<>>]
    /\ calls = [v \in Users |-> <<>>]
    /\ outcome = [v \in Users |-> "pending"]
    /\ errors = [v \in Users |-> <<>>]
    /\ entry_data = [v \in Users |-> EmptyDict]
    /\ prev = [v \in Users |-> <<>>]

NextDelivery ==
  \/ \E u \in Users : \E ok \in BOOLEAN : FirstAttempt(u, ok)
  \/ \E u \in Users : \E ok \in BOOLEAN : SecondAttempt(u, ok)
  \/ \E u \in Users : \E ok \in BOOLEAN : Acknowledge(u, ok)

SpecDelivery == InitDelivery /\ [][NextDelivery]_vars

\* ------------------------------------------------------------- startup

\* The process is started with any of the two variables set or not.
InitStartup ==
  /\ environ \in [TELEGRAM_BOT_TOKEN : BOOLEAN, ADMIN_USERNAME : BOOLEAN]
  /\ process = "starting"
  /\ user_data = [u \in Users |-> EmptyDict]
  /\ update = [u \in Users |-> NoUpdate]
  /\ pc = [u \in Users |-> "idle"]
  /\ tier = [u \in Users |-> 0]
  /\ ssm_calls = [u \in Users |-> <<>>]
  /\ calls = [u \in Users |-> <<>>]
  /\ outcome = [u \in Users |-> "pending"]
  /\ errors = [u \in Users |-> <<>>]
  /\ entry_data = [u \in Users |-> EmptyDict]
  /\ prev = [u \in Users |-> <<>>]

\* The module is loaded and main runs up to run_polling.  Without
\* TELEGRAM_BOT_TOKEN the module logs an error and raises ValueError;
\* ADMIN_USERNAME is read and not looked at.
Startup ==
  /\ process = "starting"
  /\ process' = IF environ.TELEGRAM_BOT_TOKEN THEN "polling" ELSE "aborted"
  /\ UNCHANGED <<environ, user_data, update, pc, tier, ssm_calls, calls,
                 outcome, errors, entry_data, prev>>

NextStartup ==
  \/ Startup
  \/ Next

SpecStartup == InitStartup /\ [][NextStartup]_vars

\* --------------------------------- handlers interleaved at their awaits

\* The button pressed by the users whose handlers interleave.
ConcurrentPayloads == {<<"select_course_", "course_a">>}

\* The sessions the interleaved handlers start from: no selection yet, or
\* course_b selected by an earlier update.
ConcurrentSessions ==
  {EmptyDict,
   SetItem(EmptyDict, "selected_course",
           selected_course(<<"course_b">>, COURSE_DATA["course_b"]))}

InitConcurrent ==
  /\ environ = Configured
  /\ process = "polling"
  /\ user_data \in [Users -> ConcurrentSessions]
  /\ update = [u \in Users |-> NoUpdate]
  /\ pc = [u \in Users |-> "idle"]
  /\ tier = [u \in Users |-> 0]
  /\ ssm_calls = [u \in Users |-> <<>>]
  /\ calls = [u \in Users |-> <<>>]
  /\ outcome = [u \in Users |-> "pending"]
  /\ errors = [u \in Users |-> <<>>]
  /\ entry_data = user_data
  /\ prev = [u \in Users |-> <<>>]

\* The update of user u is handed to its handler whatever the handlers of
\* the other users are doing: every await of a handler is a point where
\* another user's handler may run.
start_command_concurrent(u) ==
  /\ process = "polling"
  /\ pc[u] = "idle"
  /\ Dispatch(u, [kind |-> "command", data |-> <<"/start">>,
                  callback_query |-> FALSE],
              "body", <<SsmCall(welcome_text, create_course_keyboard, "None")>>)

select_course_concurrent(u, data) ==
  /\ process = "polling"
  /\ pc[u] = "idle"
  /\ Dispatch(u, [kind |-> "callback", data |-> data, callback_query |-> TRUE],
              "answer", <<>>)

\* One update of each user, the handlers interleaved in every order.
NextConcurrent ==
  \/ \E u \in Users : start_command_concurrent(u)
  \/ \E u \in Users : \E data \in ConcurrentPayloads :
       select_course_concurrent(u, data)
  \/ \E u \in Users : \E ok \in BOOLEAN : SelectCourseAnswered(u, ok)
  \/ \E u \in Users : \E ok \in BOOLEAN : FirstAttempt(u, ok)
  \/ \E u \in Users : \E ok \in BOOLEAN : SecondAttempt(u, ok)
  \/ \E u \in Users : \E ok \in BOOLEAN : Acknowledge(u, ok)

SpecConcurrent == InitConcurrent /\ [][NextConcurrent]_vars

\* ----------------------------------------------------------------- claims

\* The transport calls of user u made at tier t of send_safe_message call n.
Attempts(u, n, t) ==
  {i \in DOMAIN calls[u] : calls[u][i].call = n /\ calls[u][i].tier = t}

\* Both the first attempt and the plain retry of call n failed.
BothFailed(u, n) ==
  /\ \E i \in Attempts(u, n, 1) : ~calls[u][i].ok
  /\ \E j \in Attempts(u, n, 2) : ~calls[u][j].ok

\* text contains part as a run of consecutive tokens.
Contains(text, part) ==
  \E k \in 1..(Len(text) - Len(part) + 1) :
    SubSeq(text, k, k + Len(part) - 1) = part

\* C1: in send_safe_message, a failed first attempt is followed by exactly one
\* retry, made right after it with the same addressing mode (edit for a button
\* press, reply for a command), the text as the caller gave it, no parse mode
\* and the same keyboard; a retry that succeeds ends the call normally, with
\* no acknowledgment and no further transport call.
C1_PlainRetry ==
  \A u \in Users : \A n \in DOMAIN ssm_calls[u] :
    LET c == ssm_calls[u][n]
        first == Attempts(u, n, 1)
        retry == Attempts(u, n, 2)
    IN /\ Cardinality(retry) <= 1
       /\ \A i \in first :
            ~calls[u][i].ok =>
              \/ i + 1 \in retry
              \/ /\ i = Len(calls[u])
                 /\ tier[u] = 2
                 /\ c.outcome = "pending"
       /\ \A j \in retry :
            /\ j - 1 \in first
            /\ ~calls[u][j - 1].ok
            /\ calls[u][j].op = calls[u][j - 1].op
            /\ calls[u][j].op = IF update[u].callback_query
                                THEN "edit_message_text" ELSE "reply_text"
            /\ calls[u][j].text = c.text
            /\ calls[u][j].parse_mode = "None"
            /\ calls[u][j].reply_markup = c.reply_markup
            /\ calls[u][j].ok =>
                 /\ c.outcome = "returned"
                 /\ Attempts(u, n, 3) = {}
                 /\ j = Len(calls[u])

\* C1 witness: a MarkdownV2 edit whose escaped text differs from the text given
\* failed, and the plain retry delivered the text given.
C1_Witness ==
  \E u \in Users :
    /\ pc[u] = "done"
    /\ Len(calls[u]) = 2
    /\ calls[u][1].op = "edit_message_text"
    /\ ~calls[u][1].ok
    /\ calls[u][1].text # ssm_calls[u][1].text
    /\ calls[u][2].ok
    /\ outcome[u] = "returned"

\* C2: for an update that came from a button press, when the first edit and
\* the plain retry of a delivery both failed, the acknowledgment was produced
\* and the handler ended without raising.
C2_AcknowledgedNoRaise ==
  \A u \in Users :
    (pc[u] = "done" /\ update[u].callback_query) =>
      \A n \in DOMAIN ssm_calls[u] :
        BothFailed(u, n) =>
          /\ \E k \in Attempts(u, n, 3) : calls[u][k].ok
          /\ outcome[u] = "returned"

CourseId(u) ==
  Replace(update[u].data,
          IF Handler(update[u]) = "select_course" THEN "select_course_"
          ELSE "contact_admin_")

\* User u's handler is h, running or ended.
Handling(u, h) == pc[u] # "idle" /\ Handler(update[u]) = h

\* The first query.answer() of user u's handler has completed, with result ok.
Answered(u, ok) == Len(calls[u]) >= 1 /\ calls[u][1].ok = ok

\* What the first send_safe_message call of user u's handler rendered.
Rendered(u) ==
  [text |-> ssm_calls[u][1].text, reply_markup |-> ssm_calls[u][1].reply_markup]

\* Send_safe_message call n reached the user: its first attempt or its plain
\* retry succeeded.
Delivered(u, n) ==
  \E i \in Attempts(u, n, 1) \cup Attempts(u, n, 2) : calls[u][i].ok

\* C4 as stated: a select of an id that is not in the catalog always renders
\* the NotFound response and leaves the selection as it was.
C4_NotFoundAlways ==
  \A u \in Users :
    (pc[u] = "done" /\ Handler(update[u]) = "select_course"
       /\ COURSE_DATA_get(CourseId(u)) = <<>>) =>
      /\ Rendered(u).text = NotFoundText
      /\ user_data[u] = entry_data[u]

\* C4: a select of an id that is not in the catalog leaves the selection as it
\* was at every step; once its query.answer() succeeded the first message it
\* hands to send_safe_message is the NotFound response, without keyboard, and
\* when query.answer() failed the NotFound response is never rendered: the
\* generic error of select_course is.
C4_NotFoundWhenAnswered ==
  \A u \in Users :
    (Handling(u, "select_course") /\ COURSE_DATA_get(CourseId(u)) = <<>>) =>
      /\ user_data[u] = entry_data[u]
      /\ Answered(u, TRUE) =>
           /\ Rendered(u) = [text |-> NotFoundText, reply_markup |-> NoMarkup]
           /\ Len(calls[u]) >= 2 => calls[u][2].text = NotFoundText
      /\ Answered(u, FALSE) =>
           /\ Rendered(u).text = SelectErrorText
           /\ \A n \in DOMAIN ssm_calls[u] : ssm_calls[u][n].text # NotFoundText

\* C4 witness: a user with a stored selection pressed a button of a course
\* that is gone, and the NotFound response was delivered.
C4_Witness ==
  \E u \in Users :
    /\ pc[u] = "done"
    /\ Handler(update[u]) = "select_course"
    /\ COURSE_DATA_get(CourseId(u)) = <<>>
    /\ "selected_course" \in DOMAIN entry_data[u]
    /\ Answered(u, TRUE)
    /\ Delivered(u, 1)

\* The preceding update of user u was a select_course of the id that the
\* current one selects, its query.answer() succeeded and the id is in the
\* catalog.
SelectedAgain(u) ==
  /\ Handling(u, "select_course")
  /\ prev[u] # <<>>
  /\ prev[u][1].course_id = CourseId(u)

\* C5 as stated: the second of two consecutive selects of the same catalog
\* item renders what the first rendered and leaves the stored selection of the
\* first.
C5_Idempotent ==
  \A u \in Users :
    (SelectedAgain(u) /\ pc[u] = "done") =>
      /\ Rendered(u) = prev[u][1].rendered
      /\ user_data[u] = prev[u][1].selection

\* C5: after a select of catalog item X whose query.answer() succeeded, a
\* second select of X by the same user leaves the stored selection of the
\* first at every step, and when its query.answer() succeeds too it renders
\* the same detail, text and keyboard, as the first.
C5_IdempotentWhenAnswered ==
  \A u \in Users :
    SelectedAgain(u) =>
      /\ user_data[u] = prev[u][1].selection
      /\ Answered(u, TRUE) => Rendered(u) = prev[u][1].rendered

\* C5 witness: the second of two consecutive selects of an item was answered,
\* its detail was delivered, and it has ended.
C5_Witness ==
  \E u \in Users :
    /\ SelectedAgain(u)
    /\ pc[u] = "done"
    /\ Answered(u, TRUE)
    /\ Delivered(u, 1)

\* C6: every stored selection holds an id that is in the catalog.
C6_SelectionInCatalog ==
  \A u \in Users :
    "selected_course" \in DOMAIN user_data[u] =>
      COURSE_DATA_get(user_data[u]["selected_course"].id) # <<>>

\* C6 witness: a user who holds a selection pressed a button of a course that
\* is gone, every delivery attempt failed, and the handler has ended.
C6_Witness ==
  \E u \in Users :
    /\ "selected_course" \in DOMAIN user_data[u]
    /\ pc[u] = "done"
    /\ Handler(update[u]) = "select_course"
    /\ COURSE_DATA_get(CourseId(u)) = <<>>
    /\ outcome[u] = "raised"

\* C7: no exception leaves a handler, and when a step of the handler failed
\* (the first query.answer(), the relay, or a delivery that raised) the handler
\* turned the failure into its generic error response.
C7_FailuresContained ==
  \A u \in Users :
    pc[u] = "done" =>
      /\ outcome[u] = "returned"
      /\ (\/ \E i \in DOMAIN calls[u] : calls[u][i].tier = 0 /\ ~calls[u][i].ok
          \/ \E n \in DOMAIN ssm_calls[u] : ssm_calls[u][n].outcome = "raised") =>
           \E n \in DOMAIN ssm_calls[u] :
             ssm_calls[u][n].text \in {SelectErrorText, ContactErrorText}

\* C8: the start command and the back callback render the same catalog text
\* and catalog keyboard, every attempt to deliver it carries that text and
\* keyboard, and the stored selection stays as it was.
C8_SameRender ==
  \A u \in Users :
    (Handling(u, "start_command") \/ Handling(u, "show_courses_menu")) =>
      /\ Rendered(u) =
           [text |-> welcome_text, reply_markup |-> create_course_keyboard]
      /\ \A i \in Attempts(u, 1, 1) \cup Attempts(u, 1, 2) :
           /\ calls[u][i].text = welcome_text
           /\ calls[u][i].reply_markup = create_course_keyboard
      /\ user_data[u] = entry_data[u]

\* C8 witness: a user who holds a selection pressed the back button and the
\* catalog was delivered.
C8_Witness ==
  \E u \in Users :
    /\ pc[u] = "done"
    /\ Handler(update[u]) = "show_courses_menu"
    /\ "selected_course" \in DOMAIN user_data[u]
    /\ Delivered(u, 1)

\* C9: in a contact_admin of a catalog item, every attempt to send the
\* confirmation to the requester comes after a successful send_message to the
\* configured admin whose text names the requesting user and the item, so no
\* confirmation is sent when the relay failed; the stored selection stays as
\* it was.
C9_RelayBeforeConfirmation ==
  \A u \in Users :
    (Handling(u, "contact_admin") /\ COURSE_DATA_get(CourseId(u)) # <<>>) =>
      /\ user_data[u] = entry_data[u]
      /\ \A n \in DOMAIN ssm_calls[u] :
           ssm_calls[u][n].text = ConfirmationText =>
             \E j \in DOMAIN calls[u] :
               /\ calls[u][j].op = "send_message"
               /\ calls[u][j].ok
               /\ calls[u][j].chat_id = <<"@", ADMIN_USERNAME>>
               /\ Contains(calls[u][j].text, user_info(u))
               /\ Contains(calls[u][j].text,
                           COURSE_DATA_get(CourseId(u))[1].name)
               /\ \A i \in DOMAIN calls[u] : calls[u][i].call = n => j < i
      /\ \A i \in DOMAIN calls[u] :
           calls[u][i].text = ConfirmationText =>
             \E j \in 1..(i - 1) : calls[u][j].op = "send_message" /\ calls[u][j].ok

\* C9 witness: the inquiry was relayed and the confirmation was delivered.
C9_Witness ==
  \E u \in Users :
    /\ pc[u] = "done"
    /\ Handler(update[u]) = "contact_admin"
    /\ \E n \in DOMAIN ssm_calls[u] :
         ssm_calls[u][n].text = ConfirmationText /\ Delivered(u, n)

\* C10 as stated: a contact_admin of an id that is not in the catalog renders
\* the NotFound response, relays nothing and leaves the selection as it was.
C10_NotFoundAlways ==
  \A u \in Users :
    (pc[u] = "done" /\ Handler(update[u]) = "contact_admin"
       /\ COURSE_DATA_get(CourseId(u)) = <<>>) =>
      /\ Rendered(u).text = NotFoundText
      /\ \A i \in DOMAIN calls[u] : calls[u][i].op # "send_message"
      /\ user_data[u] = entry_data[u]

\* C10: a contact_admin of an id that is not in the catalog relays nothing to
\* the admin and leaves the selection as it was at every step; once its
\* query.answer() succeeded the first message it hands to send_safe_message is
\* the NotFound response, and when query.answer() failed the NotFound response
\* is never rendered: the generic error of contact_admin is.
C10_NotFoundWhenAnswered ==
  \A u \in Users :
    (Handling(u, "contact_admin") /\ COURSE_DATA_get(CourseId(u)) = <<>>) =>
      /\ user_data[u] = entry_data[u]
      /\ \A i \in DOMAIN calls[u] : calls[u][i].op # "send_message"
      /\ Answered(u, TRUE) =>
           /\ Rendered(u) = [text |-> NotFoundText, reply_markup |-> NoMarkup]
           /\ Len(calls[u]) >= 2 => calls[u][2].text = NotFoundText
      /\ Answered(u, FALSE) =>
           /\ Rendered(u).text = ContactErrorText
           /\ \A n \in DOMAIN ssm_calls[u] : ssm_calls[u][n].text # NotFoundText

\* C10 witness: a contact_admin of a course that is gone was answered and the
\* NotFound response was delivered.
C10_Witness ==
  \E u \in Users :
    /\ pc[u] = "done"
    /\ Handler(update[u]) = "contact_admin"
    /\ COURSE_DATA_get(CourseId(u)) = <<>>
    /\ Answered(u, TRUE)
    /\ Delivered(u, 1)

\* The texts of the error responses: the except clauses, the error handler
\* and the tier 3 acknowledgment.
ErrorTexts ==
  {SelectErrorText, ContactErrorText, ErrorHandlerText, AcknowledgmentText}

\* The update of user u met a failure: a transport call made for it failed.
Failed(u) == \E i \in DOMAIN calls[u] : ~calls[u][i].ok

Keyboards(u) ==
  {ssm_calls[u][1].reply_markup}
  \cup {calls[u][i].reply_markup : i \in Attempts(u, 1, 1) \cup Attempts(u, 1, 2)}

\* C12: the keyboard of every response to /start and to back_to_groups has
\* one row of one button per course, in the order of COURSE_DATA, each button
\* labelled with its course's name and carrying the payload that the
\* select_course handler takes and resolves to that course, followed by one
\* last row holding one url button (the demo link) and nothing after it.
C12_CatalogKeyboard ==
  \A u \in Users :
    (Handling(u, "start_command") \/ Handling(u, "show_courses_menu")) =>
      \A kb \in Keyboards(u) :
        /\ Len(kb) = Len(COURSE_IDS) + 1
        /\ \A i \in 1..Len(COURSE_IDS) :
             /\ Len(kb[i]) = 1
             /\ kb[i][1].url = <<>>
             /\ kb[i][1].callback_data = <<"select_course_", COURSE_IDS[i]>>
             /\ Handler([kind |-> "callback", data |-> kb[i][1].callback_data,
                         callback_query |-> TRUE]) = "select_course"
             /\ COURSE_DATA_get(Replace(kb[i][1].callback_data,
                                        "select_course_"))
                  = <<COURSE_DATA[COURSE_IDS[i]]>>
             /\ Contains(kb[i][1].text, COURSE_DATA[COURSE_IDS[i]].name)
        /\ Len(kb[Len(kb)]) = 1
        /\ kb[Len(kb)][1].callback_data = <<>>
        /\ kb[Len(kb)][1].url # <<>>

\* A back_to_groups pressed after a selection was made has been answered with
\* the catalog keyboard, on the plain retry.
C12_Witness ==
  \E u \in Users :
    /\ Handling(u, "show_courses_menu")
    /\ pc[u] = "done"
    /\ "selected_course" \in DOMAIN user_data[u]
    /\ \E i \in Attempts(u, 1, 2) : calls[u][i].ok

\* urllib.parse.unquote: every percent-encoding is turned back into its token.
unquote(text) ==
  [i \in 1..Len(text) |->
     IF \E t \in DOMAIN PercentEncoding : PercentEncoding[t] = text[i]
     THEN CHOOSE t \in DOMAIN PercentEncoding : PercentEncoding[t] = text[i]
     ELSE text[i]]

\* What follows the first occurrence of the token marker in text.
RECURSIVE After(_, _)
After(text, marker) ==
  IF text = <<>> THEN <<>>
  ELSE IF Head(text) = marker THEN Tail(text)
  ELSE After(Tail(text), marker)

\* What precedes the first occurrence of the token stop in text.
RECURSIVE UpTo(_, _)
UpTo(text, stop) ==
  IF text = <<>> \/ Head(text) = stop THEN <<>>
  ELSE <<Head(text)>> \o UpTo(Tail(text), stop)

\* The line of text that the token marker starts.
Field(text, marker) == UpTo(After(text, marker), "\n")

\* str.split(sep)
RECURSIVE Split(_, _)
Split(text, sep) ==
  IF \A i \in DOMAIN text : text[i] # sep THEN <<text>>
  ELSE <<UpTo(text, sep)>> \o Split(After(text, sep), sep)

\* The message of a deep link: what follows ?text=, percent-decoded.
DecodedMessage(link) == unquote(After(link, "?text="))

\* The Contact Admin link shown to user u, whose select_course found a course.
ContactLink(u) == ssm_calls[u][1].reply_markup[1][1].url

\* C13 as stated: the message of the Contact Admin link built for a course,
\* percent-decoded, gives back the name of the course, its price in the
\* format with two minor digits, and the list of its features.
C13_RoundTrip ==
  \A u \in Users :
    (/\ Handling(u, "select_course")
     /\ Answered(u, TRUE)
     /\ COURSE_DATA_get(CourseId(u)) # <<>>) =>
      LET course == COURSE_DATA_get(CourseId(u))[1]
          decoded == DecodedMessage(ContactLink(u))
      IN /\ Field(decoded, "[book] Group: ") = course.name
         /\ Field(decoded, "[money] Price: Rs") = Tail(price_text(course.price))
         /\ Split(Field(decoded, "[clipboard] Features: "), "|")
              = course.features

\* text is a run of decimal digits.
IsDigits(text) ==
  \A i \in DOMAIN text : \E d \in DOMAIN Digits : Digits[d] = text[i]

\* The number a run of decimal digits writes.
RECURSIVE Number(_)
Number(text) ==
  IF text = <<>> THEN 0
  ELSE Number(SubSeq(text, 1, Len(text) - 1)) * 10
       + (CHOOSE d \in 0..9 : Digits[d + 1] = text[Len(text)])

\* shown is the rupee sign, the major units of price with no leading zero, a
\* dot, and the minor units of price on exactly two digits.
ShowsPrice(shown, price) ==
  LET major == UpTo(Tail(shown), ".")
      minor == After(Tail(shown), ".")
  IN /\ shown # <<>>
     /\ Head(shown) = "Rs"
     /\ Len(major) >= 1
     /\ IsDigits(major)
     /\ Len(major) > 1 => major[1] # "0"
     /\ Len(minor) = 2
     /\ IsDigits(minor)
     /\ Number(major) * 100 + Number(minor) = price

\* The texts shown for the first send_safe_message call of user u's update:
\* the one given to the call and the ones its send or edit attempts carried.
Texts(u) ==
  {ssm_calls[u][1].text}
  \cup {calls[u][i].text : i \in Attempts(u, 1, 1) \cup Attempts(u, 1, 2)}

\* C14: the label of every course button of the catalog keyboard, and the
\* price line of the detail text of every course, show the price of the
\* course as its major units, a dot and exactly two minor digits, equal to
\* the price in minor units (3000 as 30.00, 5000 as 50.00, 10000 as 100.00).
C14_TwoMinorDigits ==
  \A u \in Users :
    /\ (Handling(u, "start_command") \/ Handling(u, "show_courses_menu")) =>
         \A kb \in Keyboards(u) : \A i \in 1..Len(COURSE_IDS) :
           ShowsPrice(UpTo(After(kb[i][1].text, "("), ")"),
                      COURSE_DATA[COURSE_IDS[i]].price)
    /\ (/\ Handling(u, "select_course")
        /\ Answered(u, TRUE)
        /\ COURSE_DATA_get(CourseId(u)) # <<>>) =>
         \A text \in Texts(u) :
           ShowsPrice(Field(text, "[money] Price: "),
                      COURSE_DATA_get(CourseId(u))[1].price)

\* The detail of course_c, whose price has three major digits, has reached
\* the user.
C14_Witness ==
  \E u \in Users :
    /\ Handling(u, "select_course")
    /\ CourseId(u) = <<"course_c">>
    /\ Answered(u, TRUE)
    /\ Delivered(u, 1)
    /\ Contains(ssm_calls[u][1].text, <<"Rs", "1", "0", "0", ".", "0", "0">>)

\* C15 as stated: a process started without the bot token or without the
\* admin handle never reaches run_polling, and no handler is invoked in it.
C15_NoDispatchUnconfigured ==
  (~environ.TELEGRAM_BOT_TOKEN \/ ~environ.ADMIN_USERNAME) =>
    /\ process # "polling"
    /\ \A u \in Users : pc[u] = "idle"

\* C16 as stated: while the handler of one user is suspended at a call of
\* send_safe_message, whatever has failed in it so far, an update of another
\* user can be handed to its handler: the /start of a user whose handler is
\* not running does not have to wait for the first user's delivery to finish.
C16_DispatchNotBlocked ==
  \A u, v \in Users :
    (u # v /\ pc[u] \in InSsm /\ pc[v] = "idle") => ENABLED start_command(v)

\* This step completes the query.answer() of a select_course of user u for a
\* course of the catalog, without error.
SelectPasses(u) ==
  /\ pc[u] = "answer"
  /\ Handler(update[u]) = "select_course"
  /\ COURSE_DATA_get(CourseId(u)) # <<>>
  /\ Len(calls'[u]) = 1
  /\ calls'[u][1].ok

\* C17: the session of a user starts with no selection; the step in which
\* the query.answer() of a select_course for a course of the catalog
\* succeeds leaves the id of that course as the selection, whatever was
\* stored before; and no other step (of /start, back_to_groups,
\* contact_admin, a select_course of an unknown id or with a failed
\* query.answer(), send_safe_message, the error handler, or of another
\* user) creates, changes or deletes the selection.
C17_LastWriteWins ==
  /\ \A u \in Users : user_data[u] = EmptyDict
  /\ [][\A u \in Users :
          IF SelectPasses(u)
          THEN /\ DOMAIN user_data'[u] = {"selected_course"}
               /\ user_data'[u]["selected_course"].id = CourseId(u)
          ELSE user_data'[u] = user_data[u]]_vars

\* A select_course of a course has replaced the different course that the
\* user had selected before.
C17_Witness ==
  \E u \in Users :
    /\ Handling(u, "select_course")
    /\ Answered(u, TRUE)
    /\ "selected_course" \in DOMAIN entry_data[u]
    /\ entry_data[u]["selected_course"].id # CourseId(u)
    /\ user_data[u]["selected_course"].id = CourseId(u)

\* C18: from the moment the query.answer() of a select_course for a course
\* of the catalog has succeeded, the session holds that course (id, name,
\* price, features), at every later point of the handling: before the
\* detail is sent, and whether the delivery succeeded on the first attempt,
\* on the plain retry, ended with the acknowledgment, or failed at every
\* tier and went through the except clause and the error handler.
C18_WriteBeforeDelivery ==
  \A u \in Users :
    (/\ Handling(u, "select_course")
     /\ Answered(u, TRUE)
     /\ COURSE_DATA_get(CourseId(u)) # <<>>) =>
      LET course == COURSE_DATA_get(CourseId(u))[1] IN
      /\ "selected_course" \in DOMAIN user_data[u]
      /\ user_data[u]["selected_course"]
           = [id |-> CourseId(u), name |-> course.name,
              price |-> course.price, features |-> course.features]

\* The detail of the selected course failed at every tier and the user
\* received the message of the except clause instead, while the session
\* holds the course.
C18_Witness ==
  \E u \in Users :
    /\ Handling(u, "select_course")
    /\ pc[u] = "done"
    /\ Answered(u, TRUE)
    /\ BothFailed(u, 1)
    /\ \E i \in Attempts(u, 1, 3) : ~calls[u][i].ok
    /\ ssm_calls[u][2].text = SelectErrorText
    /\ Delivered(u, 2)
    /\ "selected_course" \in DOMAIN user_data[u]
    /\ user_data[u]["selected_course"].id = CourseId(u)
    /\ ~("selected_course" \in DOMAIN entry_data[u])

\* C19: in select_course and contact_admin, query.answer() is the first
\* transport call and is made once: until it completes nothing has been
\* looked up, stored, relayed or sent.  When it fails, the session is what it
\* was when the update was dispatched, nothing is sent to the admin, and
\* every later call belongs to a send_safe_message of a generic error text:
\* the message of the handler's except clause first and, only when that
\* send_safe_message raises too, the message of the error handler.
C19_AcknowledgedFirst ==
  \A u \in Users :
    (Handling(u, "select_course") \/ Handling(u, "contact_admin")) =>
      /\ pc[u] = "answer" =>
           /\ calls[u] = <<>>
           /\ ssm_calls[u] = <<>>
           /\ user_data[u] = entry_data[u]
      /\ pc[u] # "answer" =>
           /\ calls[u] # <<>>
           /\ calls[u][1].op = "answer"
           /\ calls[u][1].tier = 0
           /\ calls[u][1].text = <<>>
      /\ \A i \in DOMAIN calls[u] :
           (i > 1 /\ calls[u][i].op = "answer") => calls[u][i].tier = 3
      /\ Answered(u, FALSE) =>
           /\ user_data[u] = entry_data[u]
           /\ \A i \in DOMAIN calls[u] : calls[u][i].op # "send_message"
           /\ ssm_calls[u] # <<>>
           /\ ssm_calls[u][1].text = ExceptText(Handler(update[u]))
           /\ Len(ssm_calls[u]) <= 2
           /\ Len(ssm_calls[u]) = 2 =>
                /\ ssm_calls[u][1].outcome = "raised"
                /\ ssm_calls[u][2].text = ErrorHandlerText
           /\ \A i \in DOMAIN calls[u] :
                i > 1 =>
                  /\ calls[u][i].call \in DOMAIN ssm_calls[u]
                  /\ calls[u][i].text
                       \in {ssm_calls[u][calls[u][i].call].text,
                            AcknowledgmentText}

\* The query.answer() of a select_course failed for a user who had selected
\* another course: the selection is the old one and the user received the
\* message of the except clause.
C19_Witness ==
  \E u \in Users :
    /\ Handling(u, "select_course")
    /\ pc[u] = "done"
    /\ Answered(u, FALSE)
    /\ COURSE_DATA_get(CourseId(u)) # <<>>
    /\ "selected_course" \in DOMAIN user_data[u]
    /\ user_data[u]["selected_course"].id # CourseId(u)
    /\ Delivered(u, 1)

\* A step of user u's handler, of its send_safe_message or of the error
\* handler run for it.
HandlerStep(u) ==
  \E ok \in BOOLEAN :
    \/ SelectCourseAnswered(u, ok)
    \/ ContactAdminAnswered(u, ok)
    \/ SendToAdmin(u, ok)
    \/ FirstAttempt(u, ok)
    \/ SecondAttempt(u, ok)
    \/ Acknowledge(u, ok)

\* The send_safe_message calls made by user u's handler itself, not by the
\* error handler.
OwnCalls(u) ==
  {n \in DOMAIN ssm_calls[u] : ssm_calls[u][n].text # ErrorHandlerText}

\* C20: for one update, each call of send_safe_message makes at most one
\* first attempt, one plain retry (both a reply or an edit) and one
\* acknowledgment; the handler calls send_safe_message at most twice, the
\* second time only from its except clause with the generic error text, and
\* the error handler at most once more; outside send_safe_message the
\* handler makes at most its query.answer() and one send_message.  So the
\* transport calls of an update are bounded, and a handler that has not
\* ended can always take its next step: it ends whatever fails.
C20_BoundedCalls ==
  \A u \in Users :
    /\ \A n \in DOMAIN ssm_calls[u] : \A t \in 1..3 :
         /\ Cardinality(Attempts(u, n, t)) <= 1
         /\ \A i \in Attempts(u, n, t) :
              IF t = 3 THEN calls[u][i].op = "answer"
              ELSE calls[u][i].op \in {"reply_text", "edit_message_text"}
    /\ Cardinality(OwnCalls(u)) <= 2
    /\ \A n \in OwnCalls(u) :
         n > 1 => /\ HasTryExcept(Handler(update[u]))
                  /\ ssm_calls[u][n].text = ExceptText(Handler(update[u]))
    /\ Len(ssm_calls[u]) <= Cardinality(OwnCalls(u)) + 1
    /\ \A i \in DOMAIN calls[u] : calls[u][i].tier \in 0..3
    /\ Cardinality({i \in DOMAIN calls[u] : calls[u][i].tier = 0}) <= 2
    /\ Len(calls[u]) <= 2 + 3 * Len(ssm_calls[u])
    /\ pc[u] \notin {"idle", "done"} => ENABLED HandlerStep(u)

\* A contact_admin whose every transport call failed has ended: the relay,
\* then three tiers for the except clause and three for the error handler.
C20_Witness ==
  \E u \in Users :
    /\ Handling(u, "contact_admin")
    /\ pc[u] = "done"
    /\ Answered(u, TRUE)
    /\ Len(ssm_calls[u]) = 2
    /\ Len(calls[u]) = 8
    /\ \A i \in DOMAIN calls[u] : i > 1 => ~calls[u][i].ok

====
